---------------------------- MODULE Spec2Model ----------------------------
(***************************************************************************)
(* The MapReduce coordinator of 6.5840/src/mr/coordinator.go: the task     *)
(* tables, the two remaining-counters, GetTask (report ingestion followed  *)
(* by the assignment scan) and Done.                                       *)
(***************************************************************************)
EXTENDS Integers, Sequences, FiniteSets, TLC

\* ------------------------------------------------------------------ bounds
\* MakeCoordinator is called with len(files) >= 1 and nReduce >= 1, at most
\* MaxTasks task records in all.
MaxTasks == 3
\* The wall clock: it reads StartTime when the coordinator is made and
\* advances MaxTicks times by TickStep (seconds).
StartTime == 20
TickStep == 6
MaxTicks == 2
\* Executors that call GetTask concurrently (process 0 is the driver that
\* polls Done).
NumWorkers == 2

\* ------------------------------------------------------- program constants
\* time.Second * -10: the staleness threshold, in seconds.
Staleness == 10
\* The zero time.Time of a record that MakeCoordinator leaves unset.
ZeroTime == 0

VARIABLES
    mapTasks,        \* Coordinator.mapTasks: 0..len(files)-1 -> MapTasks
    reduceTasks,     \* Coordinator.reduceTasks: 0..nReduce-1 -> ReduceTasks
    mapLeft,         \* Coordinator.mapLeft
    reduceLeft,      \* Coordinator.reduceLeft
    now,             \* the wall clock read by time.Now()
    op,              \* the operation that produced this state
    args,            \* the TaskArgs of the most recent GetTask call
    reply,           \* the TaskReply its caller observes on return
    selected,        \* the record the assignment scan of that call selected
    doneResult,      \* what the most recent Done call returned
    everDone,        \* history: some Done call has returned true
    mapDispatched,   \* history: when incomplete Map i was last selected
    reduceDispatched,\* history: when incomplete Reduce i was last selected
    accepted,        \* history: CompletedTasks of the report that completed Map i
    lock,            \* Coordinator.locks: Free, or the process holding it
    pc,              \* where each process stands in its call
    callArgs,        \* the TaskArgs of each executor's call in progress
    loop,            \* the index its range over args.CompletedTasks has reached
    held,            \* the TaskReply each executor got from its last call
    panicked         \* a run-time panic has ended the coordinator process

aux == <<lock, pc, callArgs, loop, held, panicked>>

vars == <<mapTasks, reduceTasks, mapLeft, reduceLeft, now, op, args, reply,
          selected, doneResult, everDone, mapDispatched, reduceDispatched,
          accepted, lock, pc, callArgs, loop, held, panicked>>

\* ------------------------------------------------------------------ values
\* The name of input file idx handed to MakeCoordinator.
InputFile(idx) == <<"in", idx>>

\* The intermediate file Map task m writes for bucket b (mr-m-b); the empty
\* string (length 0) stands for "nothing produced for this bucket".
NoFile == <<>>
Intermediate(m, b) == <<m, b>>

Never == -1
Free == -1
Driver == 0
Workers == 1..NumWorkers
Procs == {Driver} \cup Workers
NoSelection == [kind |-> "None", id |-> 0]
NoCompleted == <<>>
NoArgs == [WorkerStatus |-> "None", WorkerId |-> 0, CompletedTasks |-> NoCompleted]

\* The TaskReply object the caller hands to GetTask: a fresh value whose
\* status is none of Map, Reduce, Sleep, Exit.
CallerReply == [WorkerStatus |-> "None", WorkerId |-> 0,
                ImpendingTasks |-> <<>>, NReduce |-> 0]

\* The coordinator's fields as one value, for the operators below.
Coord == [mapTasks |-> mapTasks, reduceTasks |-> reduceTasks,
          mapLeft |-> mapLeft, reduceLeft |-> reduceLeft]

\* CompletedTasks of a Map report for task m: per bucket, the file the task
\* wrote for it, or nothing.
CompletedSets(m, nReduce) ==
    { [b \in 0..(nReduce - 1) |->
          IF b \in S THEN Intermediate(m, b) ELSE NoFile] :
      S \in SUBSET (0..(nReduce - 1)) }

\* The reports a cooperating executor sends: none, a Map completion for a
\* Map task with its intermediate files, a Reduce completion for a bucket.
TaskArgsSet ==
    {NoArgs}
    \cup UNION { { [WorkerStatus |-> "Map", WorkerId |-> m, CompletedTasks |-> ct] :
                     ct \in CompletedSets(m, Cardinality(DOMAIN reduceTasks)) } :
                   m \in DOMAIN mapTasks }
    \cup { [WorkerStatus |-> "Reduce", WorkerId |-> r, CompletedTasks |-> NoCompleted] :
           r \in DOMAIN reduceTasks }

\* ------------------------------------------------------- GetTask: ingestion
\* Fault variant: the len(completedTasks) > 0 test is dropped.
AppendCompletedAll(rts, completed) ==
    [r \in DOMAIN rts |->
        IF r \in DOMAIN completed
        THEN [rts[r] EXCEPT !.files = Append(@, completed[r])]
        ELSE rts[r]]

\* Fault variant: the new file is put in front of the bucket's files.
AppendCompletedPrepend(rts, completed) ==
    [r \in DOMAIN rts |->
        IF r \in DOMAIN completed /\ Len(completed[r]) > 0
        THEN [rts[r] EXCEPT !.files = <<completed[r]>> \o @]
        ELSE rts[r]]

\* for id, completedTasks := range args.CompletedTasks: every non-empty
\* entry is appended to the files of the reduce task of its index.
AppendCompleted(rts, completed) ==
    [r \in DOMAIN rts |->
        IF r \in DOMAIN completed /\ Len(completed[r]) > 0
        THEN [rts[r] EXCEPT !.files = Append(@, completed[r])]
        ELSE rts[r]]

\* Fault variant: the !isDone test of the Map block is dropped.
IngestMapUnchecked(c, a) ==
    IF a.WorkerStatus = "Map"
    THEN [c EXCEPT !.mapTasks[a.WorkerId].isDone = TRUE,
                   !.reduceTasks = AppendCompleted(@, a.CompletedTasks),
                   !.mapLeft = @ - 1]
    ELSE c

\* Fault variant: self.mapLeft -= 1 is forgotten.
IngestMapNoDecrement(c, a) ==
    IF a.WorkerStatus = "Map" /\ ~c.mapTasks[a.WorkerId].isDone
    THEN [c EXCEPT !.mapTasks[a.WorkerId].isDone = TRUE,
                   !.reduceTasks = AppendCompleted(@, a.CompletedTasks)]
    ELSE c

\* Fault variant: every report that is not a Reduce report is taken for a
\* Map report.
IngestMapAnyKind(c, a) ==
    IF a.WorkerStatus # "Reduce" /\ ~c.mapTasks[a.WorkerId].isDone
    THEN [c EXCEPT !.mapTasks[a.WorkerId].isDone = TRUE,
                   !.reduceTasks = AppendCompleted(@, a.CompletedTasks),
                   !.mapLeft = @ - 1]
    ELSE c

\* if args.WorkerStatus == Map { if !mapTasks[WorkerId].isDone { ... } }
IngestMap(c, a) ==
    IF a.WorkerStatus = "Map" /\ ~c.mapTasks[a.WorkerId].isDone
    THEN [c EXCEPT !.mapTasks[a.WorkerId].isDone = TRUE,
                   !.reduceTasks = AppendCompleted(@, a.CompletedTasks),
                   !.mapLeft = @ - 1]
    ELSE c

\* Fault variant: the !isDone test of the Reduce block is dropped.
IngestReduceUnchecked(c, a) ==
    IF a.WorkerStatus = "Reduce"
    THEN [c EXCEPT !.reduceTasks[a.WorkerId].isDone = TRUE,
                   !.reduceLeft = @ - 1]
    ELSE c

\* Fault variant: the Reduce block flips the flag instead of testing it.
IngestReduceToggle(c, a) ==
    IF a.WorkerStatus = "Reduce"
    THEN [c EXCEPT !.reduceTasks[a.WorkerId].isDone = ~@,
                   !.reduceLeft = @ - 1]
    ELSE c

\* if args.WorkerStatus == Reduce { if !reduceTasks[WorkerId].isDone { ... } }
IngestReduce(c, a) ==
    IF a.WorkerStatus = "Reduce" /\ ~c.reduceTasks[a.WorkerId].isDone
    THEN [c EXCEPT !.reduceTasks[a.WorkerId].isDone = TRUE,
                   !.reduceLeft = @ - 1]
    ELSE c

\* Step 1 of GetTask: the Map block, then the Reduce block.
Ingest(c, a) == IngestReduce(IngestMap(c, a), a)

\* ------------------------------------------------------ GetTask: assignment
\* time.Time.Before
Before(t, u) == t < u

\* The records a scan stops at: not done and startAt.Before(timeLeft).
Eligible(tasks, timeLeft) ==
    {i \in DOMAIN tasks : ~tasks[i].isDone /\ Before(tasks[i].startAt, timeLeft)}

\* range visits the slice in index order: the scan stops at the lowest one.
First(S) == CHOOSE i \in S : \A j \in S : i <= j

\* The Map branch on a hit.  mapWorker is a copy of the record, so
\* mapWorker.startAt = now leaves c.mapTasks as it is; reply = &newTask
\* rebinds the local pointer, so the caller's reply object is left as it is.
MapHit(c, t, r, i) ==
    LET mapWorker == [c.mapTasks[i] EXCEPT !.startAt = t]
        newTask == [WorkerId |-> mapWorker.id, WorkerStatus |-> "Map",
                    ImpendingTasks |-> <<mapWorker.file>>,
                    NReduce |-> Cardinality(DOMAIN c.reduceTasks)]
    IN  [c |-> c, reply |-> r,
         selected |-> [kind |-> "Map", id |-> i]]

\* Fault variant: the return after a Reduce hit is missing, so the call runs on to
\* reply.WorkerStatus = Exit.
ReduceHitFallsThrough(c, t, r, i) ==
    [c |-> c,
     reply |-> [r EXCEPT !.ImpendingTasks = c.reduceTasks[i].files,
                         !.WorkerId = c.reduceTasks[i].id,
                         !.WorkerStatus = "Exit"],
     selected |-> [kind |-> "Reduce", id |-> i]]

\* The Reduce branch on a hit.  The caller's reply is written in place;
\* reduceWorker is a copy, so reduceWorker.startAt = now is lost.
ReduceHit(c, t, r, i) ==
    LET reduceWorker == [c.reduceTasks[i] EXCEPT !.startAt = t]
    IN  [c |-> c,
         reply |-> [r EXCEPT !.ImpendingTasks = reduceWorker.files,
                             !.WorkerId = reduceWorker.id,
                             !.WorkerStatus = "Reduce"],
         selected |-> [kind |-> "Reduce", id |-> i]]

\* if self.reduceLeft > 0 { scan ... Sleep }; reply.WorkerStatus = Exit
ReduceBranch(c, t, r) ==
    LET timeLeft == t - Staleness
        hits == Eligible(c.reduceTasks, timeLeft)
    IN  IF c.reduceLeft > 0 /\ hits # {}
        THEN ReduceHit(c, t, r, First(hits))
        ELSE LET r1 == IF c.reduceLeft > 0
                       THEN [r EXCEPT !.WorkerStatus = "Sleep"] ELSE r
             IN  [c |-> c, reply |-> [r1 EXCEPT !.WorkerStatus = "Exit"],
                  selected |-> NoSelection]

\* Fault variant: the Map phase is taken to end one task early (mapLeft > 1).
MapBranchOffByOne(c, t, r) ==
    LET timeLeft == t - Staleness
        hits == Eligible(c.mapTasks, timeLeft)
    IN  IF c.mapLeft > 1 /\ hits # {}
        THEN MapHit(c, t, r, First(hits))
        ELSE ReduceBranch(c, t,
                 IF c.mapLeft > 1 THEN [r EXCEPT !.WorkerStatus = "Sleep"] ELSE r)

\* if self.mapLeft > 0 { scan ... Sleep } and then on to the Reduce block.
MapBranch(c, t, r) ==
    LET timeLeft == t - Staleness
        hits == Eligible(c.mapTasks, timeLeft)
    IN  IF c.mapLeft > 0 /\ hits # {}
        THEN MapHit(c, t, r, First(hits))
        ELSE ReduceBranch(c, t,
                 IF c.mapLeft > 0 THEN [r EXCEPT !.WorkerStatus = "Sleep"] ELSE r)

\* The whole of GetTask on coordinator c at time t.
GetTaskResult(c, a, t, r) == MapBranch(Ingest(c, a), t, r)

\* ----------------------------------------------------------------- actions
\* MakeCoordinator(files, nReduce) with len(files) > 0, read at StartTime.
Init ==
    \E nFiles \in 1..MaxTasks, nReduce \in 1..MaxTasks :
        /\ nFiles + nReduce <= MaxTasks
        /\ mapTasks = [idx \in 0..(nFiles - 1) |->
                          [id |-> idx, file |-> InputFile(idx),
                           startAt |-> ZeroTime, isDone |-> FALSE]]
        /\ reduceTasks = [idx \in 0..(nReduce - 1) |->
                             [id |-> idx, files |-> <<>>,
                              startAt |-> ZeroTime, isDone |-> FALSE]]
        /\ mapLeft = nFiles
        /\ reduceLeft = nReduce
        /\ now = StartTime
        /\ op = "MakeCoordinator"
        /\ args = NoArgs
        /\ reply = CallerReply
        /\ selected = NoSelection
        /\ doneResult = FALSE
        /\ everDone = FALSE
        /\ mapDispatched = [idx \in 0..(nFiles - 1) |-> Never]
        /\ reduceDispatched = [idx \in 0..(nReduce - 1) |-> Never]
        /\ accepted = [idx \in 0..(nFiles - 1) |-> NoCompleted]
        /\ lock = Free
        /\ pc = [p \in Procs |-> "idle"]
        /\ callArgs = [p \in Workers |-> NoArgs]
        /\ loop = [p \in Workers |-> 0]
        /\ held = [p \in Workers |-> CallerReply]
        /\ panicked = FALSE

\* One GetTask call, the whole body under the lock.
GetTask ==
    \E a \in TaskArgsSet :
        LET res == GetTaskResult(Coord, a, now, CallerReply)
            sel == res.selected
        IN  /\ mapTasks' = res.c.mapTasks
            /\ reduceTasks' = res.c.reduceTasks
            /\ mapLeft' = res.c.mapLeft
            /\ reduceLeft' = res.c.reduceLeft
            /\ op' = "GetTask"
            /\ args' = a
            /\ reply' = res.reply
            /\ selected' = sel
            /\ mapDispatched' =
                   [i \in DOMAIN mapTasks |->
                       IF sel.kind = "Map" /\ sel.id = i THEN now
                       ELSE IF res.c.mapTasks[i].isDone THEN Never
                       ELSE mapDispatched[i]]
            /\ reduceDispatched' =
                   [i \in DOMAIN reduceTasks |->
                       IF sel.kind = "Reduce" /\ sel.id = i THEN now
                       ELSE IF res.c.reduceTasks[i].isDone THEN Never
                       ELSE reduceDispatched[i]]
            /\ accepted' =
                   IF a.WorkerStatus = "Map" /\ ~mapTasks[a.WorkerId].isDone
                   THEN [accepted EXCEPT ![a.WorkerId] = a.CompletedTasks]
                   ELSE accepted
            /\ UNCHANGED <<now, doneResult, everDone>>
            /\ UNCHANGED aux

\* One Done call.
DoneResult(c) == c.mapLeft = 0 /\ c.reduceLeft = 0

Done ==
    /\ doneResult' = DoneResult(Coord)
    /\ everDone' = (everDone \/ DoneResult(Coord))
    /\ op' = "Done"
    /\ args' = NoArgs
    /\ reply' = CallerReply
    /\ selected' = NoSelection
    /\ UNCHANGED <<mapTasks, reduceTasks, mapLeft, reduceLeft, now,
                   mapDispatched, reduceDispatched, accepted>>
    /\ UNCHANGED aux

\* The wall clock advances between calls.
Tick ==
    /\ now + TickStep <= StartTime + MaxTicks * TickStep
    /\ now' = now + TickStep
    /\ op' = "Tick"
    /\ args' = NoArgs
    /\ reply' = CallerReply
    /\ selected' = NoSelection
    /\ UNCHANGED <<mapTasks, reduceTasks, mapLeft, reduceLeft, doneResult,
                   everDone, mapDispatched, reduceDispatched, accepted>>
    /\ UNCHANGED aux

Next == GetTask \/ Done \/ Tick

Spec == Init /\ [][Next]_vars

\* ------------------------------------------------- reports out of range
\* Reports that break the caller's contract: a Map or Reduce report whose
\* WorkerId is no index of the table, and a Map report whose CompletedTasks
\* has one entry more than there are reduce tasks.
OversizedSets(m, nReduce) ==
    { [b \in 0..nReduce |->
          IF b \in S THEN Intermediate(m, b) ELSE NoFile] :
      S \in SUBSET (0..nReduce) }

MalformedArgsSet ==
    { [WorkerStatus |-> k, WorkerId |-> i, CompletedTasks |-> NoCompleted] :
        k \in {"Map"}, i \in {-1, Cardinality(DOMAIN mapTasks)} }
    \cup { [WorkerStatus |-> k, WorkerId |-> i, CompletedTasks |-> NoCompleted] :
        k \in {"Reduce"}, i \in {-1, Cardinality(DOMAIN reduceTasks)} }
    \cup UNION { { [WorkerStatus |-> "Map", WorkerId |-> m, CompletedTasks |-> ct] :
                     ct \in OversizedSets(m, Cardinality(DOMAIN reduceTasks)) } :
                   m \in DOMAIN mapTasks }

\* The non-empty entries of CompletedTasks that index past reduceTasks.
Overflow(c, a) ==
    {b \in DOMAIN a.CompletedTasks :
        b \notin DOMAIN c.reduceTasks /\ Len(a.CompletedTasks[b]) > 0}

\* Step 1 of GetTask with Go's index checks.  mapTasks[WorkerId] (line 85)
\* and reduceTasks[WorkerId] (line 100) panic before anything is written;
\* reduceTasks[id] (line 90) panics after isDone was set and the entries
\* below id were appended, and before mapLeft -= 1.
IngestOrPanic(c, a) ==
    IF a.WorkerStatus = "Map" /\ a.WorkerId \notin DOMAIN c.mapTasks
    THEN [c |-> c, panic |-> TRUE]
    ELSE IF /\ a.WorkerStatus = "Map"
            /\ ~c.mapTasks[a.WorkerId].isDone
            /\ Overflow(c, a) # {}
    THEN [c |-> [c EXCEPT !.mapTasks[a.WorkerId].isDone = TRUE,
                          !.reduceTasks = AppendCompleted(@, a.CompletedTasks)],
          panic |-> TRUE]
    ELSE IF a.WorkerStatus = "Reduce" /\ a.WorkerId \notin DOMAIN c.reduceTasks
    THEN [c |-> c, panic |-> TRUE]
    ELSE [c |-> Ingest(c, a), panic |-> FALSE]

\* One GetTask call with a report out of range.  A panic unwinds the call:
\* nothing is written to reply, and the process ends (net/rpc runs the
\* handler in a goroutine of its own, without recover).
GetTaskMalformed ==
    \E a \in MalformedArgsSet :
        LET ing == IngestOrPanic(Coord, a)
            res == IF ing.panic
                   THEN [c |-> ing.c, reply |-> CallerReply,
                         selected |-> NoSelection]
                   ELSE MapBranch(ing.c, now, CallerReply)
            sel == res.selected
        IN  /\ mapTasks' = res.c.mapTasks
            /\ reduceTasks' = res.c.reduceTasks
            /\ mapLeft' = res.c.mapLeft
            /\ reduceLeft' = res.c.reduceLeft
            /\ op' = "GetTask"
            /\ args' = a
            /\ reply' = res.reply
            /\ selected' = sel
            /\ panicked' = ing.panic
            /\ mapDispatched' =
                   [i \in DOMAIN mapTasks |->
                       IF sel.kind = "Map" /\ sel.id = i THEN now
                       ELSE IF res.c.mapTasks[i].isDone THEN Never
                       ELSE mapDispatched[i]]
            /\ reduceDispatched' =
                   [i \in DOMAIN reduceTasks |->
                       IF sel.kind = "Reduce" /\ sel.id = i THEN now
                       ELSE IF res.c.reduceTasks[i].isDone THEN Never
                       ELSE reduceDispatched[i]]
            /\ accepted' =
                   [i \in DOMAIN mapTasks |->
                       IF res.c.mapTasks[i].isDone /\ ~mapTasks[i].isDone
                       THEN a.CompletedTasks ELSE accepted[i]]
            /\ UNCHANGED <<now, doneResult, everDone, lock, pc, callArgs,
                           loop, held>>

NextMalformed ==
    \/ ~panicked /\ GetTask
    \/ ~panicked /\ Done
    \/ ~panicked /\ Tick
    \/ ~panicked /\ GetTaskMalformed

SpecMalformed == Init /\ [][NextMalformed]_vars

\* ------------------------------------------------------ concurrent calls
\* Each call is a process; the body of GetTask is taken statement by
\* statement between locks.Lock() and the deferred locks.Unlock().
core == <<mapTasks, reduceTasks, mapLeft, reduceLeft>>
seen == <<now, op, args, reply, selected, mapDispatched, reduceDispatched,
          panicked>>

\* Fault variant: the mutex is not consulted.
MutexIgnored(l) == TRUE

\* sync.Mutex.Lock returns only when the mutex is not held.
MutexAvailable(l) == l = Free

\* Fault variant: the return path does not release the mutex.
NotUnlocked(l) == l

\* sync.Mutex.Unlock, run by defer on every return path.
Unlocked(l) == Free

\* An executor's RPC arrives and reaches self.locks.Lock().
Call(p) ==
    /\ pc[p] = "idle"
    /\ pc' = [pc EXCEPT ![p] = "lock"]
    /\ UNCHANGED <<core, seen, doneResult, everDone, accepted, lock,
                   callArgs, loop, held>>

\* self.locks.Lock() returns; args is what the executor sent.
Lock(p) ==
    /\ pc[p] = "lock"
    /\ MutexAvailable(lock)
    /\ lock' = p
    /\ \E a \in TaskArgsSet : callArgs' = [callArgs EXCEPT ![p] = a]
    /\ loop' = [loop EXCEPT ![p] = 0]
    /\ pc' = [pc EXCEPT ![p] = "ingest"]
    /\ UNCHANGED <<core, seen, doneResult, everDone, accepted, held>>

\* The tests on args.WorkerStatus and isDone, and the isDone = true that
\* follows them (lines 80-86, 99-101).
IngestFlag(p) ==
    LET a == callArgs[p] IN
    /\ pc[p] = "ingest"
    /\ IF a.WorkerStatus = "Map" /\ ~mapTasks[a.WorkerId].isDone
       THEN /\ mapTasks' = [mapTasks EXCEPT ![a.WorkerId].isDone = TRUE]
            /\ accepted' = [accepted EXCEPT ![a.WorkerId] = a.CompletedTasks]
            /\ pc' = [pc EXCEPT ![p] = "append"]
            /\ UNCHANGED reduceTasks
       ELSE IF a.WorkerStatus = "Reduce" /\ ~reduceTasks[a.WorkerId].isDone
       THEN /\ reduceTasks' = [reduceTasks EXCEPT ![a.WorkerId].isDone = TRUE]
            /\ pc' = [pc EXCEPT ![p] = "decReduce"]
            /\ UNCHANGED <<mapTasks, accepted>>
       ELSE /\ pc' = [pc EXCEPT ![p] = "assign"]
            /\ UNCHANGED <<mapTasks, reduceTasks, accepted>>
    /\ UNCHANGED <<mapLeft, reduceLeft, seen, doneResult, everDone, lock,
                   callArgs, loop, held>>

\* One iteration of the range over args.CompletedTasks (lines 88-92).
AppendStep(p) ==
    LET a == callArgs[p]
        id == loop[p]
    IN  /\ pc[p] = "append"
        /\ IF id \in DOMAIN a.CompletedTasks
           THEN /\ reduceTasks' =
                       IF Len(a.CompletedTasks[id]) > 0
                       THEN [reduceTasks EXCEPT ![id].files =
                                 Append(@, a.CompletedTasks[id])]
                       ELSE reduceTasks
                /\ loop' = [loop EXCEPT ![p] = id + 1]
                /\ pc' = pc
           ELSE /\ pc' = [pc EXCEPT ![p] = "decMap"]
                /\ UNCHANGED <<reduceTasks, loop>>
        /\ UNCHANGED <<mapTasks, mapLeft, reduceLeft, seen, doneResult,
                       everDone, accepted, lock, callArgs, held>>

\* self.mapLeft -= 1 (line 93).
DecMap(p) ==
    /\ pc[p] = "decMap"
    /\ mapLeft' = mapLeft - 1
    /\ pc' = [pc EXCEPT ![p] = "assign"]
    /\ UNCHANGED <<mapTasks, reduceTasks, reduceLeft, seen, doneResult,
                   everDone, accepted, lock, callArgs, loop, held>>

\* self.reduceLeft -= 1 (line 102).
DecReduce(p) ==
    /\ pc[p] = "decReduce"
    /\ reduceLeft' = reduceLeft - 1
    /\ pc' = [pc EXCEPT ![p] = "assign"]
    /\ UNCHANGED <<mapTasks, reduceTasks, mapLeft, seen, doneResult,
                   everDone, accepted, lock, callArgs, loop, held>>

\* The assignment scans (lines 112-164); they write no field of the
\* coordinator.
Assign(p) ==
    LET res == MapBranch(Coord, now, CallerReply) IN
    /\ pc[p] = "assign"
    /\ mapTasks' = res.c.mapTasks
    /\ reduceTasks' = res.c.reduceTasks
    /\ mapLeft' = res.c.mapLeft
    /\ reduceLeft' = res.c.reduceLeft
    /\ held' = [held EXCEPT ![p] = res.reply]
    /\ pc' = [pc EXCEPT ![p] = "unlock"]
    /\ UNCHANGED <<seen, doneResult, everDone, accepted, lock, callArgs, loop>>

\* return nil: the deferred self.locks.Unlock() runs, the reply goes back
\* to the executor and the handler's args, reply and loop index are gone.
Unlock(p) ==
    /\ pc[p] = "unlock"
    /\ lock' = Unlocked(lock)
    /\ pc' = [pc EXCEPT ![p] = "idle"]
    /\ callArgs' = [callArgs EXCEPT ![p] = NoArgs]
    /\ loop' = [loop EXCEPT ![p] = 0]
    /\ held' = [held EXCEPT ![p] = CallerReply]
    /\ UNCHANGED <<core, seen, doneResult, everDone, accepted>>

\* The driver calls Done and reaches c.locks.Lock().
DoneCall ==
    /\ pc[Driver] = "idle"
    /\ pc' = [pc EXCEPT ![Driver] = "lock"]
    /\ UNCHANGED <<core, seen, doneResult, everDone, accepted, lock,
                   callArgs, loop, held>>

DoneLock ==
    /\ pc[Driver] = "lock"
    /\ MutexAvailable(lock)
    /\ lock' = Driver
    /\ pc' = [pc EXCEPT ![Driver] = "read"]
    /\ UNCHANGED <<core, seen, doneResult, everDone, accepted, callArgs,
                   loop, held>>

\* return c.mapLeft == 0 && c.reduceLeft == 0
DoneRead ==
    /\ pc[Driver] = "read"
    /\ doneResult' = DoneResult(Coord)
    /\ everDone' = (everDone \/ DoneResult(Coord))
    /\ pc' = [pc EXCEPT ![Driver] = "unlock"]
    /\ UNCHANGED <<core, seen, accepted, lock, callArgs, loop, held>>

DoneUnlock ==
    /\ pc[Driver] = "unlock"
    /\ lock' = Unlocked(lock)
    /\ pc' = [pc EXCEPT ![Driver] = "idle"]
    /\ UNCHANGED <<core, seen, doneResult, everDone, accepted, callArgs,
                   loop, held>>

\* The statements of a call after it has the mutex.
Body(p) ==
    \/ IngestFlag(p) \/ AppendStep(p) \/ DecMap(p) \/ DecReduce(p)
    \/ Assign(p) \/ Unlock(p)

DoneBody == DoneRead \/ DoneUnlock

NextConc ==
    \/ \E p \in Workers : Call(p)
    \/ \E p \in Workers : Lock(p)
    \/ \E p \in Workers : IngestFlag(p)
    \/ \E p \in Workers : AppendStep(p)
    \/ \E p \in Workers : DecMap(p)
    \/ \E p \in Workers : DecReduce(p)
    \/ \E p \in Workers : Assign(p)
    \/ \E p \in Workers : Unlock(p)
    \/ DoneCall \/ DoneLock \/ DoneRead \/ DoneUnlock

SpecConc == Init /\ [][NextConc]_vars

\* Scheduling: a goroutine that can run does run (weak fairness on the
\* statements of a body); a goroutine waiting in Lock gets the mutex if it
\* is released again and again (sync.Mutex hands a starving waiter the
\* mutex: strong fairness on Lock).
FairConc ==
    /\ \A p \in Workers : WF_vars(Body(p)) /\ SF_vars(Lock(p))
    /\ WF_vars(DoneBody) /\ SF_vars(DoneLock)

SpecConcFair == Init /\ [][NextConc]_vars /\ FairConc

\* ---------------------------------------------------- a faithful executor
\* One executor keeps calling GetTask, and reports in each call the task
\* its previous reply assigned; the other executors and the driver call as
\* they please or not at all.
Faithful == 1

\* The report an executor sends after the reply r: the finished Map task
\* with one intermediate file per bucket, the finished Reduce task, or
\* nothing when r assigned no task.
ReportFor(r) ==
    IF r.WorkerStatus = "Map"
    THEN [WorkerStatus |-> "Map", WorkerId |-> r.WorkerId,
          CompletedTasks |->
              [b \in 0..(r.NReduce - 1) |-> Intermediate(r.WorkerId, b)]]
    ELSE IF r.WorkerStatus = "Reduce"
    THEN [WorkerStatus |-> "Reduce", WorkerId |-> r.WorkerId,
          CompletedTasks |-> NoCompleted]
    ELSE NoArgs

\* The executor sends its next call.
WorkerSend ==
    /\ pc[Faithful] = "idle"
    /\ callArgs' = [callArgs EXCEPT ![Faithful] = ReportFor(held[Faithful])]
    /\ pc' = [pc EXCEPT ![Faithful] = "lock"]
    /\ UNCHANGED <<core, seen, doneResult, everDone, accepted, lock, loop,
                   held>>

\* The coordinator serves that call: the whole body of GetTask.
WorkerServe ==
    LET a == callArgs[Faithful]
        res == GetTaskResult(Coord, a, now, CallerReply)
        sel == res.selected
    IN  /\ pc[Faithful] = "lock"
        /\ mapTasks' = res.c.mapTasks
        /\ reduceTasks' = res.c.reduceTasks
        /\ mapLeft' = res.c.mapLeft
        /\ reduceLeft' = res.c.reduceLeft
        /\ op' = "GetTask"
        /\ args' = a
        /\ reply' = res.reply
        /\ selected' = sel
        /\ mapDispatched' =
               [i \in DOMAIN mapTasks |->
                   IF sel.kind = "Map" /\ sel.id = i THEN now
                   ELSE IF res.c.mapTasks[i].isDone THEN Never
                   ELSE mapDispatched[i]]
        /\ reduceDispatched' =
               [i \in DOMAIN reduceTasks |->
                   IF sel.kind = "Reduce" /\ sel.id = i THEN now
                   ELSE IF res.c.reduceTasks[i].isDone THEN Never
                   ELSE reduceDispatched[i]]
        /\ accepted' =
               IF a.WorkerStatus = "Map" /\ ~mapTasks[a.WorkerId].isDone
               THEN [accepted EXCEPT ![a.WorkerId] = a.CompletedTasks]
               ELSE accepted
        /\ held' = [held EXCEPT ![Faithful] = res.reply]
        /\ callArgs' = [callArgs EXCEPT ![Faithful] = NoArgs]
        /\ pc' = [pc EXCEPT ![Faithful] = "idle"]
        /\ UNCHANGED <<now, doneResult, everDone, lock, loop, panicked>>

NextWorker == WorkerSend \/ WorkerServe \/ GetTask \/ Done \/ Tick

\* The faithful executor and the clock keep going (weak fairness); the
\* other executors' calls and the driver's carry no fairness: they may
\* stop at any point.
SpecWorker ==
    /\ Init /\ [][NextWorker]_vars
    /\ WF_vars(WorkerSend) /\ WF_vars(WorkerServe) /\ WF_vars(Tick)

\* ------------------------------------------------------- shared predicates
MapIds == DOMAIN mapTasks
ReduceIds == DOMAIN reduceTasks
AllMapsDone == \A i \in MapIds : mapTasks[i].isDone
AllReducesDone == \A i \in ReduceIds : reduceTasks[i].isDone
Called == op = "GetTask"
Occurrences(fs, x) == Cardinality({p \in 1..Len(fs) : fs[p] = x})

\* ---------------------------------------------------------------------- C1
\* C1: no GetTask call returns a Reduce assignment (nor does its scan select
\* a Reduce record) while some Map record is not done, the call's own
\* report counted.
C1_PhaseOrdering ==
    (Called /\ (reply.WorkerStatus = "Reduce" \/ selected.kind = "Reduce"))
        => AllMapsDone

\* A call answered in the middle of the Map phase, Reduce records pending.
C1_Witness ==
    /\ Called
    /\ \E i \in MapIds : mapTasks[i].isDone
    /\ \E i \in MapIds : ~mapTasks[i].isDone
    /\ reduceLeft > 0
    /\ reply.WorkerStatus # "Reduce"

\* ---------------------------------------------------------------------- C2
CountersMatch ==
    /\ mapLeft = Cardinality({i \in MapIds : ~mapTasks[i].isDone})
    /\ reduceLeft = Cardinality({i \in ReduceIds : ~reduceTasks[i].isDone})
    /\ mapLeft \in 0..Cardinality(MapIds)
    /\ reduceLeft \in 0..Cardinality(ReduceIds)

\* C2: mapLeft is the number of Map records not done and reduceLeft the
\* number of Reduce records not done, in every state; neither counter ever
\* increases, and both stay between 0 and their initial value.
C2_CounterConsistency ==
    /\ []CountersMatch
    /\ [][mapLeft' <= mapLeft /\ reduceLeft' <= reduceLeft]_vars

\* Both counters have been decremented, some by a call carrying a Reduce
\* report, and work remains.
C2_Witness ==
    /\ Called
    /\ args.WorkerStatus = "Reduce"
    /\ mapLeft < Cardinality(MapIds)
    /\ 0 < reduceLeft /\ reduceLeft < Cardinality(ReduceIds)

\* ---------------------------------------------------------------------- C3
DuplicateReport(a) ==
    \/ a.WorkerStatus = "Map" /\ mapTasks[a.WorkerId].isDone
    \/ a.WorkerStatus = "Reduce" /\ reduceTasks[a.WorkerId].isDone

DuplicateIsNoOp ==
    (op' = "GetTask" /\ DuplicateReport(args')) =>
        /\ mapLeft' = mapLeft
        /\ reduceLeft' = reduceLeft
        /\ \A r \in ReduceIds : reduceTasks'[r].files = reduceTasks[r].files
        /\ \A i \in MapIds : mapTasks'[i].isDone = mapTasks[i].isDone
        /\ \A r \in ReduceIds : reduceTasks'[r].isDone = reduceTasks[r].isDone

OneFilePerMapTask ==
    \A r \in ReduceIds :
        \A p, q \in 1..Len(reduceTasks[r].files) :
            reduceTasks[r].files[p][1] = reduceTasks[r].files[q][1] => p = q

\* C3: a Map or Reduce completion report for a record that is already done
\* changes neither counter and no reduce task's files; no reduce task ever
\* holds two files of the same Map task.
C3_IdempotentIngestion ==
    /\ []OneFilePerMapTask
    /\ [][DuplicateIsNoOp]_vars

\* A second Map report for a done task, naming a file for a bucket the
\* accepted report left empty, has been answered.
C3_Witness ==
    /\ Called
    /\ args.WorkerStatus = "Map"
    /\ mapTasks[args.WorkerId].isDone
    /\ \E b \in ReduceIds :
          /\ Len(args.CompletedTasks[b]) > 0
          /\ accepted[args.WorkerId][b] = NoFile
          /\ Occurrences(reduceTasks[b].files, args.CompletedTasks[b]) = 0

\* ---------------------------------------------------------------------- C4
\* C4: a Map record selected by a call at time T and not reported complete
\* is not selected again by any call before T + 10 s.
C4_NoEarlyRedispatch ==
    [][(op' = "GetTask" /\ selected'.kind = "Map"
            /\ mapDispatched[selected'.id] # Never)
          => now >= mapDispatched[selected'.id] + Staleness]_vars

\* ---------------------------------------------------------------------- C5
\* C5: when the scan selects a Map record, the reply the caller observes
\* has status Map, that record's id, its file as the only input, and
\* NReduce = len(reduceTasks).
C5_MapReply ==
    (Called /\ selected.kind = "Map") =>
        reply = [WorkerStatus |-> "Map",
                 WorkerId |-> mapTasks[selected.id].id,
                 ImpendingTasks |-> <<mapTasks[selected.id].file>>,
                 NReduce |-> Cardinality(ReduceIds)]

\* ---------------------------------------------------------------------- C6
Recent(t) == t # Never /\ now < t + Staleness

WaitCase ==
    \/ /\ mapLeft' > 0
       /\ \A i \in MapIds : ~mapTasks'[i].isDone => Recent(mapDispatched[i])
    \/ /\ mapLeft' = 0 /\ reduceLeft' > 0
       /\ \A i \in ReduceIds :
             ~reduceTasks'[i].isDone => Recent(reduceDispatched[i])

\* C6: when the current phase has records not done and every one of them
\* was selected less than 10 s ago, the call returns Sleep and changes no
\* assignment timestamp.
C6_WaitReply ==
    [][(op' = "GetTask" /\ WaitCase) =>
          /\ reply'.WorkerStatus = "Sleep"
          /\ \A i \in MapIds : mapTasks'[i].startAt = mapTasks[i].startAt
          /\ \A i \in ReduceIds :
                reduceTasks'[i].startAt = reduceTasks[i].startAt]_vars

\* ---------------------------------------------------------------------- C7
\* C7: a GetTask call returns Exit exactly when, its report counted, both
\* counters are zero; and then every Map and Reduce record is done.
C7_ExitIffComplete ==
    Called =>
        /\ (reply.WorkerStatus = "Exit") <=> (mapLeft = 0 /\ reduceLeft = 0)
        /\ (reply.WorkerStatus = "Exit") => (AllMapsDone /\ AllReducesDone)

\* The call whose Reduce report completes the job is told to exit.
C7_Witness ==
    /\ Called
    /\ args.WorkerStatus = "Reduce"
    /\ reply.WorkerStatus = "Exit"

\* ---------------------------------------------------------------------- C8
\* C8: once a Done call has returned true, every later Done call returns
\* true and every later GetTask call returns Exit, whatever it reports.
C8_Terminal ==
    everDone =>
        /\ (op = "Done" => doneResult)
        /\ (Called => reply.WorkerStatus = "Exit")
        /\ DoneResult(Coord)

\* After Done returned true, a call repeating a Map report was answered.
C8_Witness ==
    /\ everDone
    /\ Called
    /\ args.WorkerStatus = "Map"
    /\ \E b \in ReduceIds : Len(args.CompletedTasks[b]) > 0

\* ---------------------------------------------------------------------- C9
ExpectedFiles(r) == {accepted[m][r] : m \in MapIds} \ {NoFile}

FilesOf(r) == {reduceTasks[r].files[p] : p \in 1..Len(reduceTasks[r].files)}

\* C9: once every Map record is done, the files of reduce task r are
\* exactly the non-empty bucket-r entries of the reports that completed the
\* Map tasks, each once, in whatever order those reports arrived.
C9_Exhaustive ==
    AllMapsDone =>
        \A r \in ReduceIds :
            /\ FilesOf(r) = ExpectedFiles(r)
            /\ \A x \in FilesOf(r) : Occurrences(reduceTasks[r].files, x) = 1

\* Two Map tasks fed bucket 0, the higher-numbered one first.
C9_Witness ==
    /\ AllMapsDone
    /\ Len(reduceTasks[0].files) = 2
    /\ reduceTasks[0].files[1] = Intermediate(1, 0)
    /\ reduceTasks[0].files[2] = Intermediate(0, 0)

\* --------------------------------------------------------------------- C10
\* C10: when the scan selects a Reduce record, the reply has status Reduce,
\* that record's id and its accumulated files, and the record's startAt is
\* set to the time of the call.
C10_ReduceReply ==
    (Called /\ selected.kind = "Reduce") =>
        /\ reply.WorkerStatus = "Reduce"
        /\ reply.WorkerId = reduceTasks[selected.id].id
        /\ reply.ImpendingTasks = reduceTasks[selected.id].files
        /\ reduceTasks[selected.id].startAt = now

\* --------------------------------------------------------------------- C11
\* The records of a phase that are not done (the call's report counted) and
\* were never selected or were last selected more than 10 s ago.
ReadyMaps ==
    {i \in MapIds : /\ ~mapTasks'[i].isDone
                    /\ (mapDispatched[i] = Never
                        \/ mapDispatched[i] + Staleness < now)}

ReadyReduces ==
    {i \in ReduceIds : /\ ~reduceTasks'[i].isDone
                       /\ (reduceDispatched[i] = Never
                           \/ reduceDispatched[i] + Staleness < now)}

\* C11: every Map (Reduce) assignment names the lowest-numbered record of
\* its phase that is not done and is unset or stale; so calls made within
\* 10 s of each other are handed distinct Map tasks in increasing order.
C11_LowestReadySelected ==
    [][/\ (op' = "GetTask" /\ selected'.kind = "Map") =>
              (ReadyMaps # {} /\ selected'.id = First(ReadyMaps))
       /\ (op' = "GetTask" /\ selected'.kind = "Reduce") =>
              (ReadyReduces # {} /\ selected'.id = First(ReadyReduces))]_vars

\* --------------------------------------------------------------------- C12
\* C12: when the lowest ready Map record is one that was selected more than
\* 10 s ago and never reported, a GetTask call with no report is assigned
\* that task and the record's startAt is set to the time of the call.
C12_TimeoutRedispatch ==
    [][(/\ op' = "GetTask"
        /\ args'.WorkerStatus = "None"
        /\ ReadyMaps # {}
        /\ mapDispatched[First(ReadyMaps)] # Never) =>
          /\ selected' = [kind |-> "Map", id |-> First(ReadyMaps)]
          /\ reply'.WorkerStatus = "Map"
          /\ reply'.WorkerId = First(ReadyMaps)
          /\ mapTasks'[First(ReadyMaps)].startAt = now]_vars

\* --------------------------------------------------------------------- C15
\* C15: a Map or Reduce record that is done stays done in every later
\* state.
C15_CompletionMonotonic ==
    [][/\ \A i \in MapIds : mapTasks[i].isDone => mapTasks'[i].isDone
       /\ \A i \in ReduceIds :
             reduceTasks[i].isDone => reduceTasks'[i].isDone]_vars

\* After the job was seen complete, a late Reduce report has been answered.
C15_Witness ==
    /\ Called
    /\ everDone
    /\ args.WorkerStatus = "Reduce"
    /\ reduceTasks[args.WorkerId].isDone

\* --------------------------------------------------------------------- C16
\* C16: a GetTask call whose report has neither kind Map nor Reduce changes
\* no isDone flag, no counter and no reduce task's files; it changes at most
\* the startAt of the one record its scan selects.
NoneReportFrame ==
    (op' = "GetTask" /\ args'.WorkerStatus = "None") =>
        /\ mapLeft' = mapLeft /\ reduceLeft' = reduceLeft
        /\ \A i \in MapIds :
              /\ mapTasks'[i].isDone = mapTasks[i].isDone
              /\ mapTasks'[i].file = mapTasks[i].file
              /\ (selected' # [kind |-> "Map", id |-> i]
                    => mapTasks'[i].startAt = mapTasks[i].startAt)
        /\ \A i \in ReduceIds :
              /\ reduceTasks'[i].isDone = reduceTasks[i].isDone
              /\ reduceTasks'[i].files = reduceTasks[i].files
              /\ (selected' # [kind |-> "Reduce", id |-> i]
                    => reduceTasks'[i].startAt = reduceTasks[i].startAt)

C16_NoneReportFrame == [][NoneReportFrame]_vars

\* A call with no report was assigned a Reduce task that has files.
C16_Witness ==
    /\ Called
    /\ args.WorkerStatus = "None"
    /\ selected.kind = "Reduce"
    /\ Len(reduceTasks[selected.id].files) > 0

\* --------------------------------------------------------------------- C17
IsPrefix(s, t) == Len(s) <= Len(t) /\ SubSeq(t, 1, Len(s)) = s

\* C17: the files of a reduce task only ever grow at the end, and only in a
\* GetTask call that carries a Map report.
C17_AppendOnly ==
    [][\A r \in ReduceIds :
          /\ IsPrefix(reduceTasks[r].files, reduceTasks'[r].files)
          /\ (reduceTasks'[r].files # reduceTasks[r].files
                => (op' = "GetTask" /\ args'.WorkerStatus = "Map"))]_vars

\* A Map report has just added a second file to a bucket.
C17_Witness ==
    /\ Called
    /\ args.WorkerStatus = "Map"
    /\ \E r \in ReduceIds :
          /\ Len(reduceTasks[r].files) = 2
          /\ reduceTasks[r].files[2] = args.CompletedTasks[r]

\* --------------------------------------------------------------------- C18
ReduceInputsComplete ==
    (Called /\ selected.kind = "Reduce") =>
        /\ AllMapsDone
        /\ reply.ImpendingTasks = reduceTasks[selected.id].files
        /\ FilesOf(selected.id) = ExpectedFiles(selected.id)

\* C18: from the first state with mapLeft = 0 on, no reduce task's files
\* change, and every Reduce assignment carries exactly the files the
\* completing Map reports named for its bucket.
C18_ReduceInputsFrozen ==
    /\ []ReduceInputsComplete
    /\ [][mapLeft = 0 =>
            \A r \in ReduceIds :
                reduceTasks'[r].files = reduceTasks[r].files]_vars

\* In the Reduce phase a repeated Map report naming a file its bucket does
\* not hold was answered with a Reduce assignment.
C18_Witness ==
    /\ Called
    /\ selected.kind = "Reduce"
    /\ args.WorkerStatus = "Map"
    /\ \E b \in ReduceIds :
          /\ Len(args.CompletedTasks[b]) > 0
          /\ Occurrences(reduceTasks[b].files, args.CompletedTasks[b]) = 0

\* --------------------------------------------------------------------- C14
Malformed(a) ==
    \/ a.WorkerStatus = "Map" /\ a.WorkerId \notin MapIds
    \/ a.WorkerStatus = "Reduce" /\ a.WorkerId \notin ReduceIds
    \/ /\ a.WorkerStatus = "Map"
       /\ \E b \in DOMAIN a.CompletedTasks :
             b \notin ReduceIds /\ Len(a.CompletedTasks[b]) > 0

\* C14: a GetTask call whose report names a record out of range, or carries
\* a file for a bucket index >= nReduce, does not fail and leaves every
\* isDone flag, both counters and every reduce task's files unchanged.
C14_MalformedReportHarmless ==
    [][(op' = "GetTask" /\ Malformed(args')) =>
          /\ ~panicked'
          /\ mapLeft' = mapLeft /\ reduceLeft' = reduceLeft
          /\ \A i \in MapIds : mapTasks'[i].isDone = mapTasks[i].isDone
          /\ \A i \in ReduceIds :
                /\ reduceTasks'[i].isDone = reduceTasks[i].isDone
                /\ reduceTasks'[i].files = reduceTasks[i].files]_vars

\* --------------------------------------------------------------------- C13
\* The tables agree: counters match the flags, and every file named by the
\* report that completed a Map task is in its bucket once.
Consistent ==
    /\ CountersMatch
    /\ \A m \in MapIds : \A b \in ReduceIds :
          (mapTasks[m].isDone /\ Len(accepted[m][b]) > 0)
              => Occurrences(reduceTasks[b].files, accepted[m][b]) = 1

\* A process that holds the mutex and is about to read the tables.
Reading(p) == pc[p] \in {"ingest", "assign", "read"}

\* C13: at most one call is inside its body, and whenever a call (GetTask
\* or Done) reads the tables no other call's update is half applied: no
\* flag set without its counter decremented, no bucket append missing.
C13_SerializedCalls ==
    /\ Cardinality({p \in Procs : pc[p] \notin {"idle", "lock"}}) <= 1
    /\ \A p \in Procs : Reading(p) => Consistent

\* One call has set a flag and not yet decremented the counter while
\* another call and the driver wait for the mutex.
C13_Witness ==
    /\ \E p \in Workers, q \in Workers :
          p # q /\ pc[p] = "decMap" /\ pc[q] = "lock"
    /\ pc[Driver] = "lock"
    /\ ~CountersMatch

\* --------------------------------------------------------------------- C20
\* C20: every call that has begun returns, and the mutex, once held, is
\* released again.
C20_CallsReturn ==
    /\ \A p \in Procs : (pc[p] # "idle") ~> (pc[p] = "idle")
    /\ (lock # Free) ~> (lock = Free)

\* A call is in the middle of its append loop, holding the mutex, while
\* another call waits in Lock.
C20_Witness ==
    \E p \in Workers, q \in Workers :
        /\ p # q
        /\ lock = p /\ pc[p] = "append" /\ loop[p] > 0
        /\ pc[q] = "lock"

\* --------------------------------------------------------------------- C19
\* C19: with a faithful executor that keeps calling and reports what it
\* was assigned, the job eventually completes (Done would return true)
\* and that executor's reply is Exit.
C19_JobCompletes ==
    <>(DoneResult(Coord) /\ held[Faithful].WorkerStatus = "Exit")

=============================================================================
